---- MODULE Spec2Model ----
(***************************************************************************)
(* Crane collision warning console: the browser client.                    *)
(*                                                                         *)
(*   static/js/websocket-client.js  transport channel (connect, reconnect, *)
(*                                  frame classification, send)            *)
(*   static/js/main.js              snapshot dispatcher, panels, user input *)
(*   unnamed/part_000               three.js scene reconciler               *)
(*                                                                         *)
(* The program is single threaded: every action below is one callback of   *)
(* the browser's event loop run to completion.  The module-level globals   *)
(* of the three files are the variables; a handler is an operator from the *)
(* record of globals to the record of globals, named as in the source.     *)
(***************************************************************************)
EXTENDS Integers, Sequences, FiniteSets, TLC

-----------------------------------------------------------------------------
(* Bounds of the model *)

\* WebSocket objects that may exist at once (closed ones are collected)
MaxSockets == 3
\* the count of consecutive failures saturates here
MaxFailures == 3

-----------------------------------------------------------------------------
(* Values *)

\* let ws = null
NoSocket == 0
\* let reconnectTimer = null
NoTimer == 0

Sockets == 1..MaxSockets

\* An optional value (an absent property, undefined, NaN) is a set of at
\* most one element.
None == {}
Some(x) == {x}
The(o) == CHOOSE x \in o : TRUE

Min2(a, b) == IF a < b THEN a ELSE b

VARIABLES
    \* websocket-client.js
    ws,              \* the current WebSocket object (a slot) or NoSocket
    isConnected,
    reconnectTimer,  \* the id setTimeout returned, or NoTimer
    lastData,
    \* the browser
    loaded,          \* DOMContentLoaded has been dispatched
    sock,            \* slot -> state of the WebSocket object in it
    inTask,          \* the socket whose close event follows its error event
    timers,          \* ids of the timeouts that are pending
    statusEl,        \* className of #connection-status
    \* part_000 (the three.js scene)
    isInitialized,
    craneObjects,    \* entity id -> the handles of its Visual Object
    warningLines,    \* the overlay lines of the last tick, in order
    sceneGroups,     \* crane groups that are children of the scene
    sceneLines,      \* overlay lines that are children of the scene
    \* main.js
    selectedCraneId, \* "" stands for null
    currentState,
    dom,             \* the panels: what the DOM shows
    \* what the callback that just ran did
    sendRet,         \* what its sendMessage returned, "none" without a call
    sent,            \* the messages its ws.send accepted, in order
    dispatched,      \* its calls of onDataReceived
    before,          \* the keys of craneObjects when its updateThreeScene began
    calls,           \* what its onDataReceived called, in order; "raise" ends it
    \* history
    attempts,        \* parity of the number of new WebSocket(...) calls
    failures         \* close events and failed constructions since the last open

vars == <<ws, isConnected, reconnectTimer, lastData, loaded, sock, inTask,
          timers, statusEl, isInitialized, craneObjects, warningLines,
          sceneGroups, sceneLines, selectedCraneId, currentState, dom,
          sendRet, sent, dispatched, before, calls, attempts, failures>>

\* The globals as a callback finds them, as one record
G == [ws |-> ws, isConnected |-> isConnected, reconnectTimer |-> reconnectTimer,
      lastData |-> lastData, loaded |-> loaded, sock |-> sock, inTask |-> inTask,
      timers |-> timers, statusEl |-> statusEl,
      isInitialized |-> isInitialized, craneObjects |-> craneObjects,
      warningLines |-> warningLines, sceneGroups |-> sceneGroups,
      sceneLines |-> sceneLines, selectedCraneId |-> selectedCraneId,
      currentState |-> currentState, dom |-> dom, threw |-> FALSE,
      sendRet |-> "none", sent |-> <<>>, dispatched |-> 0, before |-> None,
      calls |-> <<>>,
      \* the THREE.Line objects this callback took out of the scene
      retired |-> {},
      attempts |-> attempts,
      failures |-> failures]

Install(g) ==
    /\ ws' = g.ws
    /\ isConnected' = g.isConnected
    /\ reconnectTimer' = g.reconnectTimer
    /\ lastData' = g.lastData
    /\ loaded' = g.loaded
    /\ sock' = g.sock
    /\ inTask' = g.inTask
    /\ timers' = g.timers
    /\ statusEl' = g.statusEl
    /\ isInitialized' = g.isInitialized
    /\ craneObjects' = g.craneObjects
    /\ warningLines' = g.warningLines
    /\ sceneGroups' = g.sceneGroups
    /\ sceneLines' = g.sceneLines
    /\ selectedCraneId' = g.selectedCraneId
    /\ currentState' = g.currentState
    /\ dom' = g.dom
    /\ sendRet' = g.sendRet
    /\ sent' = g.sent
    /\ dispatched' = g.dispatched
    /\ before' = g.before
    /\ calls' = g.calls
    /\ attempts' = g.attempts
    /\ failures' = g.failures

-----------------------------------------------------------------------------
(* websocket-client.js *)

\* ws.readyState of the object in slot s
readyState(g, s) ==
    CASE g.sock[s] = "CONNECTING" -> "CONNECTING"
      [] g.sock[s] = "OPEN" -> "OPEN"
      [] g.sock[s] = "CLOSING" -> "CLOSING"
      [] OTHER -> "CLOSED"

\* new WebSocket(url): the object takes a slot no live object holds
FreeSlots(g) == {s \in Sockets : g.sock[s] \in {"NONE", "CLOSED"}}
NewSocket(g) == CHOOSE s \in FreeSlots(g) : \A t \in FreeSlots(g) : s <= t

\* setTimeout returns an id no pending timeout has
NewTimer(g) ==
    CHOOSE t \in 1..(Cardinality(g.timers) + 1) :
        /\ t \notin g.timers
        /\ \A u \in 1..(Cardinality(g.timers) + 1) : u \notin g.timers => t <= u

clearTimeout(g, id) == [g EXCEPT !.timers = @ \ {id}]

updateConnectionStatus(g, connected) ==
    [g EXCEPT !.statusEl = IF connected THEN "status-connected"
                                        ELSE "status-disconnected"]

\* scheduleReconnect without its "already pending" guard
scheduleReconnect_NoGuard(g) ==
    [g EXCEPT !.reconnectTimer = NewTimer(g),
              !.timers = @ \cup {NewTimer(g)}]

scheduleReconnect(g) ==
    IF g.reconnectTimer # NoTimer THEN g
    ELSE [g EXCEPT !.reconnectTimer = NewTimer(g),
                   !.timers = @ \cup {NewTimer(g)}]

\* throws: new WebSocket(wsUrl) raises
connectWebSocket(g, throws) ==
    IF g.ws # NoSocket /\ readyState(g, g.ws) = "OPEN" THEN g
    ELSE LET g1 == [g EXCEPT !.attempts = 1 - @] IN
         IF throws
         THEN scheduleReconnect(
                  [g1 EXCEPT !.failures = Min2(@ + 1, MaxFailures)])
         ELSE [g1 EXCEPT !.ws = NewSocket(g),
                         !.sock[NewSocket(g)] = "CONNECTING"]

\* onopen that leaves the reconnect timer alone
ws_onopen_KeepsTimer(g) ==
    updateConnectionStatus(
        [g EXCEPT !.isConnected = TRUE, !.failures = 0], TRUE)

ws_onopen(g) ==
    LET g1 == updateConnectionStatus(
                  [g EXCEPT !.isConnected = TRUE, !.failures = 0], TRUE) IN
    IF g1.reconnectTimer # NoTimer
    THEN [clearTimeout(g1, g1.reconnectTimer) EXCEPT !.reconnectTimer = NoTimer]
    ELSE g1

\* onclose that only reports, as onerror does
ws_onclose_NoReschedule(g) ==
    updateConnectionStatus(
        [g EXCEPT !.isConnected = FALSE,
                  !.failures = Min2(@ + 1, MaxFailures)], FALSE)

ws_onclose(g) ==
    scheduleReconnect(
        updateConnectionStatus(
            [g EXCEPT !.isConnected = FALSE,
                      !.failures = Min2(@ + 1, MaxFailures)], FALSE))

\* onerror that only logs
ws_onerror_LogsOnly(g) == g

ws_onerror(g) ==
    updateConnectionStatus([g EXCEPT !.isConnected = FALSE], FALSE)

\* a callback that stops retrying after MaxFailures failures in a row
reconnectCallback_GivesUp(g, throws) ==
    IF g.failures >= MaxFailures THEN [g EXCEPT !.reconnectTimer = NoTimer]
    ELSE connectWebSocket([g EXCEPT !.reconnectTimer = NoTimer], throws)

\* the callback scheduleReconnect hands to setTimeout
reconnectCallback(g, throws) ==
    connectWebSocket([g EXCEPT !.reconnectTimer = NoTimer], throws)

\* sendMessage whose catch block reports success
sendMessage_TrueOnThrow(g, message, sendThrows) ==
    IF g.ws = NoSocket \/ readyState(g, g.ws) # "OPEN"
    THEN [g EXCEPT !.sendRet = "false"]
    ELSE IF sendThrows
         THEN [g EXCEPT !.sendRet = "true"]
         ELSE [g EXCEPT !.sent = Append(@, message), !.sendRet = "true"]

\* sendThrows: ws.send(JSON.stringify(message)) raises
sendMessage(g, message, sendThrows) ==
    IF g.ws = NoSocket \/ readyState(g, g.ws) # "OPEN"
    THEN [g EXCEPT !.sendRet = "false"]
    ELSE IF sendThrows
         THEN [g EXCEPT !.sendRet = "false"]
         ELSE [g EXCEPT !.sent = Append(@, message), !.sendRet = "true"]

sendCraneControl(g, craneId, key, value, sendThrows) ==
    sendMessage(g, [type |-> "control", crane_id |-> craneId,
                    key |-> key, value |-> value], sendThrows)

sendScenarioApply(g, scenarioId, sendThrows) ==
    sendMessage(g, [type |-> "scenario", scenario_id |-> scenarioId], sendThrows)

sendStopAll(g, sendThrows) ==
    sendMessage(g, [type |-> "stop_all"], sendThrows)

sendSimSpeed(g, speed, sendThrows) ==
    sendMessage(g, [type |-> "sim_speed", speed |-> speed], sendThrows)

-----------------------------------------------------------------------------
(* part_000: the scene *)

\* const CRANE_COLORS = [...]
CRANE_COLORS == <<4886745, 15105570, 3066993, 10181046, 15158332, 1752220>>

\* const ALERT_LEVEL_COLORS = {...}
ALERT_LEVEL_COLORS ==
    [l \in {"NORMAL", "CAUTION", "WARNING", "DANGER"} |->
        CASE l = "NORMAL" -> 52224
          [] l = "CAUTION" -> 16766720
          [] l = "WARNING" -> 16747520
          [] l = "DANGER" -> 16711680]

\* 0xffffff
White == 16777215

\* m[k] of a JavaScript object used as a map: undefined when k is no key
Lookup(m, k) == IF k \in DOMAIN m THEN Some(m[k]) ELSE None

\* {}
EmptyMap == [x \in {} |-> x]

\* f extended or overwritten at key k
Put(f, k, v) == [x \in DOMAIN f \cup {k} |-> IF x = k THEN v ELSE f[x]]
\* delete f[k]
Delete(f, k) == [x \in DOMAIN f \ {k} |-> f[x]]

\* a || b for an optional collection
OrElse(o, d) == IF o = None THEN d ELSE The(o)

\* The handle of a new THREE.Group / THREE.Line: one no live object has
NewGroup(g) ==
    LET used == g.sceneGroups \cup {g.craneObjects[i].group : i \in DOMAIN g.craneObjects}
        n == Cardinality(used) + 1 IN
    CHOOSE h \in 1..n : h \notin used /\ \A k \in 1..n : k \notin used => h <= k

NewLine(g) ==
    LET used == g.sceneLines \cup g.retired
                    \cup {g.warningLines[i].line : i \in DOMAIN g.warningLines}
        n == Cardinality(used) + 1 IN
    CHOOSE h \in 1..n : h \notin used /\ \A k \in 1..n : k \notin used => h <= k

\* Angles are kept in degrees: a rotation r stands for r * (Math.PI / 180).
\* An absent scalar gives NaN, the empty option.
Neg(o) == {0 - a : a \in o}

createCraneObject(g, craneData, colorIndex) ==
    LET color == CRANE_COLORS[(colorIndex % Len(CRANE_COLORS)) + 1]
        group == NewGroup(g)
        obj == [group |-> group,
                name |-> craneData.id,
                \* group.position.set(baseX, 0, baseZ)
                position |-> [x |-> craneData.base_x, y |-> Some(0),
                              z |-> craneData.base_y],
                \* boomGroup.position.set(0, mastH, 0)
                boomPivot |-> [x |-> Some(0), y |-> craneData.mast_height,
                               z |-> Some(0)],
                rotationY |-> Some(0),
                rotationZ |-> Some(0),
                tipColor |-> White,
                radiusColor |-> color,
                radiusOpacity |-> 15,
                color |-> color,
                mastHeight |-> craneData.mast_height,
                boomLength |-> craneData.boom_length] IN
    [g EXCEPT !.sceneGroups = @ \cup {group},
              !.craneObjects = Put(@, craneData.id, obj)]

\* updateCraneObject that turns the boom by the slew angle instead of to it
updateCraneObject_Accumulates(g, craneData, alertLevel) ==
    IF craneData.id \notin DOMAIN g.craneObjects THEN g
    ELSE
    LET obj == g.craneObjects[craneData.id] IN
    [g EXCEPT !.craneObjects[craneData.id] =
                  [obj EXCEPT !.rotationY = {r - a : r \in @, a \in craneData.slew_angle},
                              !.rotationZ = craneData.luffing_angle]]

\* updateCraneObject that keeps the sign of the slew angle
updateCraneObject_NoSignFlip(g, craneData, alertLevel) ==
    IF craneData.id \notin DOMAIN g.craneObjects THEN g
    ELSE
    LET obj == g.craneObjects[craneData.id] IN
    [g EXCEPT !.craneObjects[craneData.id] =
                  [obj EXCEPT !.rotationY = craneData.slew_angle,
                              !.rotationZ = craneData.luffing_angle]]

\* updateCraneObject that also moves the group to the base of the snapshot
updateCraneObject_Moves(g, craneData, alertLevel) ==
    IF craneData.id \notin DOMAIN g.craneObjects THEN g
    ELSE
    LET obj == g.craneObjects[craneData.id] IN
    [g EXCEPT !.craneObjects[craneData.id] =
                  [obj EXCEPT !.rotationY = Neg(craneData.slew_angle),
                              !.rotationZ = craneData.luffing_angle,
                              !.position = [x |-> craneData.base_x, y |-> Some(0),
                                            z |-> craneData.base_y]]]

\* alertLevel: craneAlerts[craneData.id], an option
updateCraneObject(g, craneData, alertLevel) ==
    IF craneData.id \notin DOMAIN g.craneObjects THEN g
    ELSE
    LET obj == g.craneObjects[craneData.id]
        posed == [obj EXCEPT !.rotationY = Neg(craneData.slew_angle),
                             !.rotationZ = craneData.luffing_angle]
        level == The(alertLevel)
        alertColor == IF level \in DOMAIN ALERT_LEVEL_COLORS
                      THEN ALERT_LEVEL_COLORS[level] ELSE obj.color
        colored ==
            IF alertLevel # None /\ level # "" /\ level # "NORMAL"
            THEN IF level = "DANGER" \/ level = "WARNING"
                 THEN [posed EXCEPT !.tipColor = alertColor,
                                    !.radiusColor = alertColor,
                                    !.radiusOpacity = 25]
                 ELSE [posed EXCEPT !.tipColor = alertColor]
            ELSE [posed EXCEPT !.tipColor = White,
                               !.radiusColor = obj.color,
                               !.radiusOpacity = 15] IN
    [g EXCEPT !.craneObjects[craneData.id] = colored]

\* objA.tipMesh.getWorldPosition(posA): fixed by the placement of the group,
\* the pivot height, the boom length and the boom rotation
TipWorldPosition(obj) ==
    [position |-> obj.position, boomPivot |-> obj.boomPivot,
     boomLength |-> obj.boomLength,
     rotationY |-> obj.rotationY, rotationZ |-> obj.rotationZ]

RECURSIVE drawWarningLines(_, _, _)
\* a loop that draws a line for a pair at NORMAL too
drawWarningLines_NormalToo(g, collisions, i) ==
    IF i > Len(collisions) THEN g
    ELSE
    LET collision == collisions[i] IN
    IF \/ collision.crane_a_id \notin DOMAIN g.craneObjects
       \/ collision.crane_b_id \notin DOMAIN g.craneObjects
    THEN drawWarningLines(g, collisions, i + 1)
    ELSE
    LET level == The(collision.alert_level)
        color == IF collision.alert_level # None
                    /\ level \in DOMAIN ALERT_LEVEL_COLORS
                 THEN ALERT_LEVEL_COLORS[level] ELSE White
        line == [line |-> NewLine(g),
                 a |-> collision.crane_a_id, b |-> collision.crane_b_id,
                 from |-> TipWorldPosition(g.craneObjects[collision.crane_a_id]),
                 to |-> TipWorldPosition(g.craneObjects[collision.crane_b_id]),
                 color |-> color] IN
    drawWarningLines([g EXCEPT !.sceneLines = @ \cup {line.line},
                               !.warningLines = Append(@, line)],
                     collisions, i + 1)

\* collisions.forEach(collision => {...}) from index i on
drawWarningLines(g, collisions, i) ==
    IF i > Len(collisions) THEN g
    ELSE
    LET collision == collisions[i] IN
    IF collision.alert_level = Some("NORMAL")
    THEN drawWarningLines(g, collisions, i + 1)
    ELSE IF \/ collision.crane_a_id \notin DOMAIN g.craneObjects
            \/ collision.crane_b_id \notin DOMAIN g.craneObjects
    THEN drawWarningLines(g, collisions, i + 1)
    ELSE
    LET objA == g.craneObjects[collision.crane_a_id]
        objB == g.craneObjects[collision.crane_b_id]
        level == The(collision.alert_level)
        color == IF collision.alert_level # None
                    /\ level \in DOMAIN ALERT_LEVEL_COLORS
                 THEN ALERT_LEVEL_COLORS[level] ELSE White
        line == [line |-> NewLine(g),
                 a |-> collision.crane_a_id, b |-> collision.crane_b_id,
                 from |-> TipWorldPosition(objA), to |-> TipWorldPosition(objB),
                 color |-> color] IN
    drawWarningLines([g EXCEPT !.sceneLines = @ \cup {line.line},
                               !.warningLines = Append(@, line)],
                     collisions, i + 1)

\* updateWarningLines that forgets the old lines without scene.remove
updateWarningLines_KeepsOld(g, collisions) ==
    drawWarningLines([g EXCEPT !.warningLines = <<>>], collisions, 1)

updateWarningLines(g, collisions) ==
    LET cleared ==
            [g EXCEPT !.sceneLines =
                          @ \ {g.warningLines[i].line : i \in DOMAIN g.warningLines},
                      !.retired =
                          @ \cup {g.warningLines[i].line : i \in DOMAIN g.warningLines},
                      !.warningLines = <<>>] IN
    drawWarningLines(cleared, collisions, 1)

RECURSIVE createAndUpdate(_, _, _, _)
\* a loop that either creates or updates
createAndUpdate_CreateOrUpdate(g, cranes, craneAlerts, i) ==
    IF i > Len(cranes) THEN g
    ELSE
    LET craneData == cranes[i] IN
    createAndUpdate(
        IF craneData.id \notin DOMAIN g.craneObjects
        THEN createCraneObject(g, craneData, i - 1)
        ELSE updateCraneObject(g, craneData, Lookup(craneAlerts, craneData.id)),
        cranes, craneAlerts, i + 1)

\* cranes.forEach((craneData, index) => {...}) from position i on
createAndUpdate(g, cranes, craneAlerts, i) ==
    IF i > Len(cranes) THEN g
    ELSE
    LET craneData == cranes[i]
        g1 == IF craneData.id \notin DOMAIN g.craneObjects
              THEN createCraneObject(g, craneData, i - 1) ELSE g IN
    createAndUpdate(updateCraneObject(g1, craneData, Lookup(craneAlerts, craneData.id)),
                    cranes, craneAlerts, i + 1)

\* a removal pass that removes nothing
removeDeleted_KeepsAll(g, cranes) == g

\* a removal pass with the test inverted: the cranes of the snapshot go
removeDeleted_Inverted(g, cranes) ==
    LET ids == {cranes[i].id : i \in DOMAIN cranes}
        gone == DOMAIN g.craneObjects \cap ids IN
    [g EXCEPT !.sceneGroups = @ \ {g.craneObjects[id].group : id \in gone},
              !.craneObjects = [id \in DOMAIN @ \ gone |-> @[id]]]

\* a removal pass that takes an empty entity list for "nothing to do"
removeDeleted_UnlessEmpty(g, cranes) ==
    IF cranes = <<>> THEN g
    ELSE LET ids == {cranes[i].id : i \in DOMAIN cranes}
             gone == DOMAIN g.craneObjects \ ids IN
         [g EXCEPT !.sceneGroups = @ \ {g.craneObjects[id].group : id \in gone},
                   !.craneObjects = [id \in DOMAIN @ \ gone |-> @[id]]]

\* Object.keys(craneObjects).forEach(id => {...}): every id no crane of the
\* snapshot has is taken out of the scene and out of the mapping
removeDeleted(g, cranes) ==
    LET ids == {cranes[i].id : i \in DOMAIN cranes}
        gone == DOMAIN g.craneObjects \ ids IN
    [g EXCEPT !.sceneGroups = @ \ {g.craneObjects[id].group : id \in gone},
              !.craneObjects = [id \in DOMAIN @ \ gone |-> @[id]]]

\* updateThreeScene without its removal pass
updateThreeScene_AppendOnly(g, state) ==
    IF ~g.isInitialized THEN g
    ELSE
    LET cranes == OrElse(state.cranes, <<>>)
        collisions == OrElse(state.collisions, <<>>)
        craneAlerts == IF state.status = None THEN EmptyMap
                       ELSE OrElse(The(state.status).crane_alerts, EmptyMap) IN
    updateWarningLines(
        createAndUpdate([g EXCEPT !.before = Some(DOMAIN g.craneObjects)],
                        cranes, craneAlerts, 1),
        collisions)

updateThreeScene(g, state) ==
    IF ~g.isInitialized THEN g
    ELSE
    LET cranes == OrElse(state.cranes, <<>>)
        collisions == OrElse(state.collisions, <<>>)
        craneAlerts == IF state.status = None THEN EmptyMap
                       ELSE OrElse(The(state.status).crane_alerts, EmptyMap) IN
    updateWarningLines(
        removeDeleted(
            createAndUpdate([g EXCEPT !.before = Some(DOMAIN g.craneObjects)],
                            cranes, craneAlerts, 1),
            cranes),
        collisions)

\* initThreeScene: hasContainer says whether #three-canvas-wrapper exists
initThreeScene(g, hasContainer) ==
    IF ~hasContainer THEN g ELSE [g EXCEPT !.isInitialized = TRUE]

-----------------------------------------------------------------------------
(* main.js: the panels *)

\* A callback that raised stops there; g.threw carries the exception up to
\* the nearest catch. h is what the next statement makes of g.
Then(g, h) == IF g.threw THEN g ELSE h
Throw(g) == [g EXCEPT !.threw = TRUE, !.calls = Append(@, "raise")]
\* f is called
Call(g, f) == [g EXCEPT !.calls = Append(@, f)]
Caught(g) == [g EXCEPT !.threw = FALSE]

\* Number.prototype.toFixed(1) of an integer n: the text "n.0"
toFixed1(n) == [int |-> n, frac |-> 0]

\* The words stand for the Korean ones of the source.
getLevelKorean(level) ==
    CASE level = Some("NORMAL") -> Some("jeongsang")
      [] level = Some("CAUTION") -> Some("juui")
      [] level = Some("WARNING") -> Some("gyeonggo")
      [] level = Some("DANGER") -> Some("wiheom")
      [] OTHER -> level

\* toLocaleTimeString('ko-KR', {hour12: false}); the zone offset is left out
formatTimestamp(timestamp) ==
    [h |-> (timestamp \div 3600) % 24, m |-> (timestamp \div 60) % 60,
     s |-> timestamp % 60]

setTextContent(g, elementId, text) == [g EXCEPT !.dom.text[elementId] = Some(text)]

updateStatusSummary(g, state) ==
    IF state.status = None THEN g
    ELSE
    LET status == The(state.status)
        cranes == OrElse(state.cranes, <<>>)
        craneAlerts == OrElse(status.crane_alerts, EmptyMap)
        count(l) == Cardinality({id \in DOMAIN craneAlerts : craneAlerts[id] = l})
        g1 == setTextContent(g, "total-cranes", Len(cranes))
        g2 == setTextContent(g1, "count-normal", count("NORMAL"))
        g3 == setTextContent(g2, "count-caution", count("CAUTION"))
        g4 == setTextContent(g3, "count-warning", count("WARNING")) IN
    setTextContent(g4, "count-danger", count("DANGER"))

\* nameMap of updateCollisionTable: the name of the last crane with the id
nameOf(cranes, id) ==
    LET at == {i \in DOMAIN cranes : cranes[i].id = id} IN
    IF at = {} THEN id
    ELSE LET last == CHOOSE i \in at : \A j \in at : j <= i IN
         IF cranes[last].name = "" THEN id ELSE cranes[last].name

updateCollisionTable(g, state) ==
    LET collisions == OrElse(state.collisions, <<>>)
        cranes == OrElse(state.cranes, <<>>)
        row(col) == [class |-> col.alert_level,
                     pair |-> <<nameOf(cranes, col.crane_a_id),
                                nameOf(cranes, col.crane_b_id)>>,
                     current_distance |-> col.current_distance,
                     boom_tip_distance |-> col.boom_tip_distance,
                     ttc |-> col.time_to_collision,
                     level |-> getLevelKorean(col.alert_level)] IN
    [g EXCEPT !.dom.collisionTbody =
                  Some([i \in DOMAIN collisions |-> row(collisions[i])])]

updateAlertMessages(g, state) ==
    LET alerts == OrElse(state.alerts, <<>>) IN
    [g EXCEPT !.dom.alertMessages = Some(alerts)]

updateEventLog(g, state) ==
    IF state.status = None THEN g
    ELSE
    LET events == OrElse(The(state.status).recent_events, <<>>)
        n == Len(events)
        item(evt) == [time |-> formatTimestamp(evt.timestamp),
                      pair |-> evt.pair,
                      from |-> getLevelKorean(Some(evt.from_level)),
                      to |-> getLevelKorean(Some(evt.to_level)),
                      distance |-> toFixed1(The(evt.distance))] IN
    IF \E i \in 1..n : events[i].distance = None
    THEN Throw(g)   \* evt.distance.toFixed of undefined
    ELSE [g EXCEPT !.dom.eventLog =
                       Some([i \in 1..n |-> item(events[n + 1 - i])])]

updateCraneSelector(g, state) ==
    LET cranes == OrElse(state.cranes, <<>>)
        currentValue == g.dom.selectValue
        options == <<"">> \o [i \in DOMAIN cranes |-> cranes[i].id] IN
    IF Len(g.dom.selectOptions) # Len(cranes) + 1
    THEN [g EXCEPT !.dom.selectOptions = options,
                   \* select.value = v selects nothing when no option has v
                   !.dom.selectValue =
                       IF \E i \in DOMAIN options : options[i] = currentValue
                       THEN currentValue ELSE ""]
    ELSE g

\* focus: the slider that is document.activeElement, or "none"
updateSelectedCraneInfo(g, state, focus) ==
    LET cranes == OrElse(state.cranes, <<>>)
        at == {i \in DOMAIN cranes : cranes[i].id = g.selectedCraneId} IN
    IF g.selectedCraneId = "" \/ at = {} THEN g
    ELSE
    LET crane == cranes[CHOOSE i \in at : \A j \in at : i <= j]
        g1 == IF focus # "slew-angle-slider"
              THEN [g EXCEPT !.dom.slider["slew-angle-slider"] = crane.slew_angle]
              ELSE g
        g2 == IF focus # "slew-speed-slider"
              THEN [g1 EXCEPT !.dom.slider["slew-speed-slider"] = crane.slew_speed]
              ELSE g1
        g3 == IF focus # "luffing-angle-slider"
              THEN [g2 EXCEPT !.dom.slider["luffing-angle-slider"] = crane.luffing_angle]
              ELSE g2
        fixed(h, id, o) == IF o = None THEN Throw(h)
                           ELSE setTextContent(h, id, toFixed1(The(o)))
        t1(h) == fixed(h, "current-slew", crane.slew_angle)
        t2(h) == fixed(h, "current-slew-speed", crane.slew_speed)
        t3(h) == fixed(h, "current-luffing", crane.luffing_angle)
        t4(h) == setTextContent(
                     setTextContent(
                         setTextContent(
                             setTextContent(
                                 setTextContent(h, "info-base-x", crane.base_x),
                                 "info-base-y", crane.base_y),
                             "info-mast-height", crane.mast_height),
                         "info-boom-length", crane.boom_length),
                     "info-working-radius", crane.working_radius)
        a1 == t1(g3)
        a2 == Then(a1, t2(a1))
        a3 == Then(a2, t3(a2)) IN
    Then(a3, t4(a3))

onDataReceived(g, state, focus) ==
    LET g0 == [g EXCEPT !.currentState = state, !.dispatched = @ + 1]
        scene3d == updateThreeScene(Call(g0, "updateThreeScene"), state)
        p1(h) == updateStatusSummary(Call(h, "updateStatusSummary"), state)
        p2(h) == updateCollisionTable(Call(h, "updateCollisionTable"), state)
        p3(h) == updateAlertMessages(Call(h, "updateAlertMessages"), state)
        p4(h) == updateEventLog(Call(h, "updateEventLog"), state)
        p5(h) == updateCraneSelector(Call(h, "updateCraneSelector"), state)
        p6(h) == updateSelectedCraneInfo(Call(h, "updateSelectedCraneInfo"), state, focus)
        a1 == Then(scene3d, p1(scene3d))
        a2 == Then(a1, p2(a1))
        a3 == Then(a2, p3(a2))
        a4 == Then(a3, p4(a3))
        a5 == Then(a4, p5(a4)) IN
    Then(a5, p6(a5))

-----------------------------------------------------------------------------
(* websocket-client.js: inbound frames *)

\* if (x) for an optional string / an optional boolean
TruthyStr(o) == o # None /\ The(o) # ""
TruthyBool(o) == o # None /\ The(o)

\* frame.kind: "malformed" (JSON.parse raises), "null" (the JSON text null)
\* or "object"
ws_onmessage(g, frame, focus) ==
    IF frame.kind = "malformed" THEN g
    ELSE
    LET g1 == [g EXCEPT !.lastData = frame] IN
    IF frame.kind = "null" THEN g1      \* data.error of null raises: caught
    ELSE IF TruthyStr(frame.error) THEN g1
    ELSE IF TruthyBool(frame.ack) THEN g1
    ELSE Caught(onDataReceived(g1, frame, focus))

-----------------------------------------------------------------------------
(* main.js: user input *)

\* An exception no catch takes ends the callback; what it wrote stays.
Uncaught(g) == [g EXCEPT !.threw = FALSE]

onCraneSelected(g, focus) ==
    LET g1 == [g EXCEPT !.selectedCraneId = g.dom.selectValue,
                        !.dom.detailDisplay =
                            IF g.dom.selectValue # "" THEN "block" ELSE "none"] IN
    IF g1.currentState.kind = "object"
    THEN Uncaught(updateSelectedCraneInfo(g1, g1.currentState, focus))
    ELSE g1

onSlewAngleChange(g, value, sendThrows) ==
    IF g.selectedCraneId = "" THEN g
    ELSE setTextContent(
             sendCraneControl(g, g.selectedCraneId, "slew_angle", value, sendThrows),
             "current-slew", toFixed1(value))

onSlewSpeedChange(g, value, sendThrows) ==
    IF g.selectedCraneId = "" THEN g
    ELSE setTextContent(
             sendCraneControl(g, g.selectedCraneId, "slew_speed", value, sendThrows),
             "current-slew-speed", toFixed1(value))

onLuffingAngleChange(g, value, sendThrows) ==
    IF g.selectedCraneId = "" THEN g
    ELSE setTextContent(
             sendCraneControl(g, g.selectedCraneId, "luffing_angle", value, sendThrows),
             "current-luffing", toFixed1(value))

stopAllCranes(g, sendThrows) == sendStopAll(g, sendThrows)

onSimSpeedChange(g, value, sendThrows) ==
    setTextContent(sendSimSpeed(g, value, sendThrows),
                   "sim-speed-label", toFixed1(value))

\* applyScenario that forgets the Visual Objects without scene.remove
applyScenario_KeepsGroups(g, scenarioId, sendThrows) ==
    [sendScenarioApply([g EXCEPT !.craneObjects = EmptyMap], scenarioId, sendThrows)
        EXCEPT !.dom.activeScenario = Some(scenarioId)]

applyScenario(g, scenarioId, sendThrows) ==
    LET cleared ==
            [g EXCEPT !.sceneGroups =
                          @ \ {g.craneObjects[id].group : id \in DOMAIN g.craneObjects},
                      !.craneObjects = EmptyMap] IN
    [sendScenarioApply(cleared, scenarioId, sendThrows)
        EXCEPT !.dom.activeScenario = Some(scenarioId)]

\* loadScenarios once the fetch has answered
loadScenarios(g, scenarios) == [g EXCEPT !.dom.scenarioList = scenarios]

-----------------------------------------------------------------------------
(* The inputs *)

Ids == {"TC-1", "TC-2", "TC-3"}

\* A crane of the wire format with slew angle a; the placement and the
\* dimensions follow the id.
Crane(id, a) ==
    LET n == CASE id = "TC-1" -> 1 [] id = "TC-2" -> 2 [] OTHER -> 3 IN
    [id |-> id, name |-> <<"Crane", n>>,
     base_x |-> Some(40 * n), base_y |-> Some(30), mast_height |-> Some(50),
     boom_length |-> Some(40), slew_angle |-> Some(a), slew_speed |-> Some(0),
     luffing_angle |-> Some(0), working_radius |-> Some(40)]

Collision(a, b, level) ==
    [crane_a_id |-> a, crane_b_id |-> b, current_distance |-> 12,
     boom_tip_distance |-> 5, time_to_collision |-> None,
     alert_level |-> Some(level)]

Event(distance) ==
    [timestamp |-> 3661, pair |-> <<"TC-1", "TC-2">>, from_level |-> "NORMAL",
     to_level |-> "DANGER", distance |-> distance]

Status(alerts, events) ==
    Some([crane_alerts |-> Some(alerts), recent_events |-> Some(events)])

Object(cranes, collisions, status, alerts) ==
    [kind |-> "object", error |-> None, ack |-> None, cranes |-> cranes,
     collisions |-> collisions, status |-> status, alerts |-> alerts]

Malformed == [kind |-> "malformed"]
NullJson == [kind |-> "null"]
\* currentState = null, lastData = null
NoState == [kind |-> "none"]

\* {}
EmptyObject == Object(None, None, None, None)

Snap1 ==
    Object(Some(<<Crane("TC-1", 0)>>), Some(<<>>),
           Status("TC-1" :> "NORMAL", <<>>), Some(<<>>))

Snap2 ==
    Object(Some(<<Crane("TC-1", 90), Crane("TC-2", 0)>>),
           Some(<<Collision("TC-1", "TC-2", "DANGER")>>),
           Status(("TC-1" :> "DANGER") @@ ("TC-2" :> "DANGER"), <<Event(Some(5))>>),
           Some(<<[alert_level |-> "DANGER", message |-> "TC-1 / TC-2"] >>))

Snap3 ==
    Object(Some(<<Crane("TC-2", 0), Crane("TC-3", 45)>>),
           Some(<<Collision("TC-2", "TC-3", "CAUTION")>>), None, None)

\* an event without distance
SnapBadEvent ==
    Object(Some(<<Crane("TC-1", 0), Crane("TC-2", 0), Crane("TC-3", 0)>>),
           Some(<<Collision("TC-1", "TC-2", "NORMAL")>>),
           Status("TC-1" :> "CAUTION", <<Event(None)>>), None)

ErrorValues == {None, Some(""), Some("boom")}
AckValues == {None, Some(TRUE), Some(FALSE)}

\* {"error": "boom"} with the fields of a snapshot
ErrorFrame == [Snap3 EXCEPT !.error = Some("boom")]

\* The frames of Spec
Frames == {Malformed, ErrorFrame, Snap1, Snap2}

\* The frames of SpecFrames: every kind of payload, and every combination of
\* an error field and an ack field on an empty and on a full snapshot
AllFrames ==
    {Malformed, NullJson, Snap1, Snap3, SnapBadEvent}
    \cup {[b EXCEPT !.error = e, !.ack = a] :
             b \in {EmptyObject, Snap2}, e \in ErrorValues, a \in AckValues}

\* The snapshots of SpecScene: entity lists that grow, shrink, are disjoint
\* from one another, repeat an id or change their order, the empty list and
\* the snapshot without an entity list
CraneList(ids) == [i \in DOMAIN ids |-> Crane(ids[i], 0)]
CraneLists ==
    {CraneList(ids) : ids \in {<<>>, <<"TC-1">>, <<"TC-1", "TC-2">>,
                                <<"TC-1", "TC-2", "TC-3">>, <<"TC-2", "TC-3">>,
                                <<"TC-3">>, <<"TC-2", "TC-1">>, <<"TC-1", "TC-1">>}}
\* ... and, for two cranes, every crane-alert map at two slew angles and
\* every collision list, absent ones included
SceneAlerts ==
    {None,
     Some([crane_alerts |-> None, recent_events |-> None]),
     Status("TC-1" :> "NORMAL", <<>>),
     Status("TC-1" :> "CAUTION", <<>>),
     Status("TC-1" :> "DANGER", <<>>),
     Status(("TC-1" :> "WARNING") @@ ("TC-2" :> "CAUTION"), <<>>)}
SceneCollisions ==
    {None,
     Some(<<Collision("TC-1", "TC-2", "DANGER")>>),
     Some(<<Collision("TC-1", "TC-2", "NORMAL")>>),
     Some(<<Collision("TC-1", "TC-2", "CAUTION"), Collision("TC-2", "TC-3", "DANGER")>>),
     Some(<<[Collision("TC-1", "TC-2", "NORMAL") EXCEPT !.alert_level = None]>>)}
\* TC-1 at slew angle a and luffing angle a / 3
TwoCranes(a) ==
    Some(<<[Crane("TC-1", a) EXCEPT !.luffing_angle = Some(a \div 3)],
           Crane("TC-2", 0)>>)
SceneFrames ==
    {Object(c, Some(<<Collision("TC-1", "TC-2", "DANGER")>>),
            Status("TC-1" :> "DANGER", <<>>), Some(<<>>)) :
        c \in {None} \cup {Some(l) : l \in CraneLists}}
    \cup {Object(TwoCranes(a), Some(<<Collision("TC-1", "TC-2", "DANGER")>>),
                 al, Some(<<>>)) : a \in {0, 90}, al \in SceneAlerts}
    \cup {Object(TwoCranes(0), col, Status("TC-1" :> "DANGER", <<>>), Some(<<>>)) :
             col \in SceneCollisions}
    \cup {EmptyObject}

SliderIds == {"slew-angle-slider", "slew-speed-slider", "luffing-angle-slider"}
Focus == {"none"}
SliderValues == {0}
SimSpeeds == {2}
ScenarioIds == {"s1"}
TextIds == {"total-cranes", "count-normal", "count-caution", "count-warning",
            "count-danger", "current-slew", "current-slew-speed",
            "current-luffing", "info-base-x", "info-base-y", "info-mast-height",
            "info-boom-length", "info-working-radius", "sim-speed-label"}

-----------------------------------------------------------------------------
(* The initial state: the page as served, no script run yet *)

Init ==
    /\ ws = NoSocket
    /\ isConnected = FALSE
    /\ reconnectTimer = NoTimer
    /\ lastData = NoState
    /\ loaded = FALSE
    /\ sock = [s \in Sockets |-> "NONE"]
    /\ inTask = NoSocket
    /\ timers = {}
    /\ statusEl = "html"
    /\ isInitialized = FALSE
    /\ craneObjects = EmptyMap
    /\ warningLines = <<>>
    /\ sceneGroups = {}
    /\ sceneLines = {}
    /\ selectedCraneId = ""
    /\ currentState = NoState
    /\ dom = [text |-> [id \in TextIds |-> None],
              slider |-> [id \in SliderIds |-> None],
              collisionTbody |-> None, alertMessages |-> None, eventLog |-> None,
              selectOptions |-> <<"">>, selectValue |-> "",
              detailDisplay |-> "html", scenarioList |-> {},
              activeScenario |-> None]
    /\ sendRet = "none"
    /\ dispatched = 0
    /\ sent = <<>>
    /\ before = None
    /\ calls = <<>>
    /\ attempts = 0
    /\ failures = 0

-----------------------------------------------------------------------------
(* The callbacks the event loop runs *)

\* No callback runs between the error event and the close event of a socket.
Idle == loaded /\ inTask = NoSocket

\* window.addEventListener('DOMContentLoaded', ...)
DOMContentLoaded(hasContainer, throws) ==
    /\ ~loaded
    /\ Install(connectWebSocket(
                   initThreeScene([G EXCEPT !.loaded = TRUE], hasContainer),
                   throws))

ScenariosLoaded ==
    /\ Idle
    /\ dom.scenarioList = {}
    /\ Install(loadScenarios(G, ScenarioIds))

SocketOpens(s) ==
    /\ Idle
    /\ sock[s] = "CONNECTING"
    /\ Install(ws_onopen([G EXCEPT !.sock[s] = "OPEN"]))

\* the server starts the closing handshake: no event yet
SocketClosing(s) ==
    /\ Idle
    /\ sock[s] = "OPEN"
    /\ Install([G EXCEPT !.sock[s] = "CLOSING"])

\* the connection fails: readyState is CLOSED, the error event is fired and
\* the close event follows in the same task
SocketErrors(s) ==
    /\ Idle
    /\ sock[s] \in {"CONNECTING", "OPEN", "CLOSING"}
    /\ Install(ws_onerror([G EXCEPT !.sock[s] = "ERRORED", !.inTask = s]))

SocketCloses(s) ==
    /\ loaded
    /\ \/ inTask = s
       \/ inTask = NoSocket /\ sock[s] \in {"OPEN", "CLOSING"}
    /\ Install(ws_onclose([G EXCEPT !.sock[s] = "CLOSED", !.inTask = NoSocket]))

SocketMessage(s, frame, focus) ==
    /\ Idle
    /\ sock[s] = "OPEN"
    /\ Install(ws_onmessage(G, frame, focus))

ReconnectTimerFires(t, throws) ==
    /\ Idle
    /\ t \in timers
    /\ Install(reconnectCallback([G EXCEPT !.timers = @ \ {t}], throws))

\* the user picks an option of #select-crane
UserSelectsCrane(i, focus) ==
    /\ Idle
    /\ i \in DOMAIN dom.selectOptions
    /\ Install(onCraneSelected(
                   [G EXCEPT !.dom.selectValue = dom.selectOptions[i]], focus))

UserMovesSlider(id, value, sendThrows) ==
    /\ Idle
    /\ LET g == [G EXCEPT !.dom.slider[id] = Some(value)] IN
       Install(CASE id = "slew-angle-slider" -> onSlewAngleChange(g, value, sendThrows)
                 [] id = "slew-speed-slider" -> onSlewSpeedChange(g, value, sendThrows)
                 [] OTHER -> onLuffingAngleChange(g, value, sendThrows))

UserStopsAll(sendThrows) ==
    /\ Idle
    /\ Install(stopAllCranes(G, sendThrows))

UserSetsSimSpeed(value, sendThrows) ==
    /\ Idle
    /\ Install(onSimSpeedChange(G, value, sendThrows))

UserAppliesScenario(id, sendThrows) ==
    /\ Idle
    /\ id \in dom.scenarioList
    /\ Install(applyScenario(G, id, sendThrows))

Next ==
    \/ \E c, t \in BOOLEAN : DOMContentLoaded(c, t)
    \/ ScenariosLoaded
    \/ \E s \in Sockets : SocketOpens(s)
    \/ \E s \in Sockets : SocketClosing(s)
    \/ \E s \in Sockets : SocketErrors(s)
    \/ \E s \in Sockets : SocketCloses(s)
    \/ \E s \in Sockets, f \in Frames, focus \in Focus : SocketMessage(s, f, focus)
    \/ \E t \in timers, th \in BOOLEAN : ReconnectTimerFires(t, th)
    \/ \E i \in 1..(Cardinality(Ids) + 1), focus \in Focus : UserSelectsCrane(i, focus)
    \* the other two sliders are moved in SpecSend
    \/ \E v \in SliderValues, th \in BOOLEAN :
           UserMovesSlider("slew-angle-slider", v, th)
    \/ \E th \in BOOLEAN : UserStopsAll(th)
    \/ \E v \in SimSpeeds, th \in BOOLEAN : UserSetsSimSpeed(v, th)
    \/ \E id \in ScenarioIds, th \in BOOLEAN : UserAppliesScenario(id, th)

Spec == Init /\ [][Next]_vars

-----------------------------------------------------------------------------
(* The same program with every kind of inbound frame and no user input *)

NextFrames ==
    \/ \E c, t \in BOOLEAN : DOMContentLoaded(c, t)
    \/ \E s \in Sockets : SocketOpens(s)
    \/ \E s \in Sockets : SocketErrors(s)
    \/ \E s \in Sockets : SocketCloses(s)
    \/ \E s \in Sockets, f \in AllFrames, focus \in Focus : SocketMessage(s, f, focus)
    \/ \E t \in timers, th \in BOOLEAN : ReconnectTimerFires(t, th)

SpecFrames == Init /\ [][NextFrames]_vars

-----------------------------------------------------------------------------
(* The program when any caller may call connectWebSocket() at any time, as
   the contract of the transport channel allows *)

LiveSockets == {s \in Sockets : sock[s] \in {"CONNECTING", "OPEN", "CLOSING"}}

ConnectCalled(throws) ==
    /\ Idle
    /\ Cardinality(LiveSockets) < MaxSockets - 1
    /\ Install(connectWebSocket(G, throws))

NextApi ==
    \/ \E c, t \in BOOLEAN : DOMContentLoaded(c, t)
    \/ \E t \in BOOLEAN : ConnectCalled(t)
    \/ \E s \in Sockets : SocketOpens(s)
    \/ \E s \in Sockets : SocketClosing(s)
    \/ \E s \in Sockets : SocketErrors(s)
    \/ \E s \in Sockets : SocketCloses(s)
    \/ \E s \in Sockets, f \in {Malformed, Snap1}, focus \in Focus :
           SocketMessage(s, f, focus)
    \/ \E t \in timers, th \in BOOLEAN : ReconnectTimerFires(t, th)
    \/ \E th \in BOOLEAN : UserStopsAll(th)

SpecApi == Init /\ [][NextApi]_vars

-----------------------------------------------------------------------------
(* The sender: one snapshot to select a crane from, every user action *)

SendValues == {45}

NextSend ==
    \/ \E c, t \in BOOLEAN : DOMContentLoaded(c, t)
    \/ ScenariosLoaded
    \/ \E s \in Sockets : SocketOpens(s)
    \/ \E s \in Sockets : SocketClosing(s)
    \/ \E s \in Sockets : SocketErrors(s)
    \/ \E s \in Sockets : SocketCloses(s)
    \/ \E s \in Sockets : SocketMessage(s, Snap1, "none")
    \/ \E t \in timers, th \in BOOLEAN : ReconnectTimerFires(t, th)
    \/ \E i \in 1..(Cardinality(Ids) + 1) : UserSelectsCrane(i, "none")
    \/ \E id \in SliderIds, v \in SendValues, th \in BOOLEAN : UserMovesSlider(id, v, th)
    \/ \E th \in BOOLEAN : UserStopsAll(th)
    \/ \E v \in SimSpeeds, th \in BOOLEAN : UserSetsSimSpeed(v, th)
    \/ \E id \in ScenarioIds, th \in BOOLEAN : UserAppliesScenario(id, th)

SpecSend == Init /\ [][NextSend]_vars

-----------------------------------------------------------------------------
(* The reconciler: the page is loaded, with or without the canvas wrapper,
   the scenario list is rendered and the socket is open and stays open *)

InitScene ==
    /\ ws = 1
    /\ isConnected = TRUE
    /\ reconnectTimer = NoTimer
    /\ lastData = NoState
    /\ loaded = TRUE
    /\ sock = [s \in Sockets |-> IF s = 1 THEN "OPEN" ELSE "NONE"]
    /\ inTask = NoSocket
    /\ timers = {}
    /\ statusEl = "status-connected"
    /\ isInitialized \in BOOLEAN
    /\ craneObjects = EmptyMap
    /\ warningLines = <<>>
    /\ sceneGroups = {}
    /\ sceneLines = {}
    /\ selectedCraneId = ""
    /\ currentState = NoState
    /\ dom = [text |-> [id \in TextIds |-> None],
              slider |-> [id \in SliderIds |-> None],
              collisionTbody |-> None, alertMessages |-> None, eventLog |-> None,
              selectOptions |-> <<"">>, selectValue |-> "",
              detailDisplay |-> "html", scenarioList |-> ScenarioIds,
              activeScenario |-> None]
    /\ sendRet = "none"
    /\ sent = <<>>
    /\ dispatched = 0
    /\ before = None
    /\ calls = <<>>
    /\ attempts = 1
    /\ failures = 0

NextScene ==
    \/ \E f \in SceneFrames : SocketMessage(1, f, "none")
    \/ \E id \in ScenarioIds, th \in BOOLEAN : UserAppliesScenario(id, th)

SpecScene == InitScene /\ [][NextScene]_vars

-----------------------------------------------------------------------------
(* The panels: the page of SpecScene, snapshots that lack optional scalars
   or replace one crane by another, and the user at the crane selector *)

\* a crane without slew angle, slew speed and luffing angle
SnapNoAngles ==
    Object(Some(<<[Crane("TC-1", 0) EXCEPT !.slew_angle = None,
                                           !.slew_speed = None,
                                           !.luffing_angle = None]>>),
           Some(<<>>), Status("TC-1" :> "NORMAL", <<>>), Some(<<>>))

\* Snap1 with TC-3 in the place of TC-1
SnapOther ==
    Object(Some(<<Crane("TC-3", 45)>>), Some(<<>>),
           Status("TC-3" :> "NORMAL", <<>>), Some(<<>>))

\* Snap1 with TC-1 reported at another place, with other dimensions, turned
SnapMoved ==
    Object(Some(<<[Crane("TC-1", 90) EXCEPT !.base_x = Some(45),
                                            !.base_y = Some(35),
                                            !.mast_height = Some(60),
                                            !.boom_length = Some(30)]>>),
           Some(<<>>), Status("TC-1" :> "DANGER", <<>>), Some(<<>>))

PanelFrames ==
    {EmptyObject, Snap1, Snap2, SnapOther, SnapMoved, SnapNoAngles, SnapBadEvent}

NextPanels ==
    \/ \E f \in PanelFrames : SocketMessage(1, f, "none")
    \/ \E i \in 1..(Cardinality(Ids) + 1) : UserSelectsCrane(i, "none")

SpecPanels == InitScene /\ [][NextPanels]_vars

-----------------------------------------------------------------------------
(* The reconnect loop alone, with the fairness of the event loop: a pending
   timeout fires, and the close event queued behind an error event is
   dispatched *)

NextRetry ==
    \/ \E c, t \in BOOLEAN : DOMContentLoaded(c, t)
    \/ \E s \in Sockets : SocketOpens(s)
    \/ \E s \in Sockets : SocketClosing(s)
    \/ \E s \in Sockets : SocketErrors(s)
    \/ \E s \in Sockets : SocketCloses(s)
    \/ \E s \in Sockets, f \in {Malformed, Snap1, Snap2} : SocketMessage(s, f, "none")
    \/ \E t \in timers, th \in BOOLEAN : ReconnectTimerFires(t, th)

TimerFires == \E t \in timers, th \in BOOLEAN : ReconnectTimerFires(t, th)
QueuedClose == \E s \in Sockets : inTask = s /\ SocketCloses(s)
Loads == \E c, t \in BOOLEAN : DOMContentLoaded(c, t)

SpecRetry ==
    /\ Init
    /\ [][NextRetry]_vars
    /\ WF_vars(Loads)
    /\ WF_vars(TimerFires)
    /\ WF_vars(QueuedClose)


-----------------------------------------------------------------------------
(* The properties *)

\* The ids a snapshot lists
EntityIds(state) ==
    IF state.kind # "object" THEN {}
    ELSE LET cranes == OrElse(state.cranes, <<>>) IN
         {cranes[i].id : i \in DOMAIN cranes}

Open == ws # NoSocket /\ sock[ws] = "OPEN"

\* C1: when updateThreeScene(S) has returned on an initialized scene, the
\* keys of craneObjects are exactly the ids of S.cranes: every id of S has
\* an entry, and no id absent from S has one.
C1_KeysAreSnapshotIds ==
    before # None => DOMAIN craneObjects = EntityIds(currentState)

\* a snapshot of two cranes processed over a scene of three
C1_ThreeThenTwo ==
    /\ before = Some(Ids)
    /\ DOMAIN craneObjects = {"TC-2", "TC-3"}
    /\ EntityIds(currentState) = {"TC-2", "TC-3"}

C3_ConnectIdempotent ==
    [][/\ \A th \in BOOLEAN :
              (ConnectCalled(th) /\ ws # NoSocket
                                 /\ sock[ws] \in {"OPEN", "CONNECTING"})
                  => UNCHANGED <<ws, sock, isConnected, reconnectTimer, timers,
                                 statusEl, attempts>>
       /\ (Cardinality({s \in Sockets : sock[s] \in {"OPEN", "CONNECTING"}}) <= 1)'
      ]_vars

\* C4: at most one reconnect timer is pending, and it is the one
\* reconnectTimer names: a failure that finds a timer pending schedules no
\* second one, and a new one is scheduled only when none is pending.
C4_OneTimerPending ==
    /\ Cardinality(timers) <= 1
    /\ timers = IF reconnectTimer = NoTimer THEN {} ELSE {reconnectTimer}

\* MaxFailures failures in a row, one timer pending
C4_FailuresInARow ==
    /\ failures = MaxFailures
    /\ Cardinality(timers) = 1
    /\ reconnectTimer # NoTimer

\* C5 as stated: the close handler and the error handler each leave the
\* connected flag false, the indicator disconnected and a reconnect timer
\* pending.
C5_CloseOrErrorSchedules ==
    [][\A s \in Sockets :
           (SocketCloses(s) \/ SocketErrors(s))
               => /\ isConnected' = FALSE
                  /\ statusEl' = "status-disconnected"
                  /\ reconnectTimer' # NoTimer
      ]_vars

\* C5, amended: the close handler leaves the connected flag false, the
\* indicator disconnected and exactly one reconnect timer pending, the one
\* that was pending if there was one; the error handler leaves the flag
\* false and the indicator disconnected and schedules nothing: the close
\* event that follows it in the same task does.
C5_CloseSchedulesErrorReports ==
    [][\A s \in Sockets :
           /\ SocketCloses(s)
                  => /\ isConnected' = FALSE
                     /\ statusEl' = "status-disconnected"
                     /\ reconnectTimer' # NoTimer
                     /\ timers' = {reconnectTimer'}
                     /\ reconnectTimer # NoTimer => reconnectTimer' = reconnectTimer
           /\ SocketErrors(s)
                  => /\ isConnected' = FALSE
                     /\ statusEl' = "status-disconnected"
                     /\ UNCHANGED <<reconnectTimer, timers>>
                     /\ inTask' = s
      ]_vars

\* the error handler has run on a connection with no timer pending, the
\* close event is still to come
C5_ErrorHandled ==
    /\ inTask # NoSocket
    /\ ~isConnected
    /\ statusEl = "status-disconnected"
    /\ reconnectTimer = NoTimer

\* C6: whenever the page is loaded and no socket is live, a new connection
\* attempt is eventually made, however many attempts have failed before.
C6_RetriesForever ==
    \A k \in {0, 1} :
        (loaded /\ LiveSockets = {} /\ attempts = k) ~> (attempts # k)

\* an attempt in flight after MaxFailures failures in a row
C6_AttemptAfterFailures ==
    /\ failures = MaxFailures
    /\ ws # NoSocket
    /\ sock[ws] = "CONNECTING"

OpenWithoutTimer == Open => timers = {} /\ reconnectTimer = NoTimer

\* C7: the open handler leaves no reconnect timer pending and the indicator
\* connected, from whatever state it is called in; so no timer is pending
\* while the socket is OPEN; and a pending timer goes away only by firing
\* or by the open handler.
C7_OpenCancelsTimer ==
    [][/\ \A s \in Sockets :
              SocketOpens(s) => /\ statusEl' = "status-connected"
                                /\ isConnected' = TRUE
                                /\ reconnectTimer' = NoTimer
                                /\ timers' = {}
       /\ LET g == ws_onopen(G) IN
              /\ g.reconnectTimer = NoTimer
              /\ g.timers = timers \ {reconnectTimer}
              /\ g.statusEl = "status-connected"
       /\ OpenWithoutTimer'
       /\ (timers' # timers /\ timers' \subseteq timers)
              => (TimerFires \/ \E s \in Sockets : SocketOpens(s))
      ]_vars

\* the socket of a reconnect attempt is open
C7_OpenAfterReconnect ==
    /\ Open
    /\ attempts = 0
    /\ statusEl = "status-connected"
    /\ timers = {}

\* What a callback that calls sendMessage(msg) once leaves behind
SendOutcome(sendThrows, msg) ==
    /\ sendRet' = IF Open /\ ~sendThrows THEN "true" ELSE "false"
    /\ sent' = IF Open /\ ~sendThrows THEN <<msg>> ELSE <<>>
    /\ UNCHANGED <<ws, sock, isConnected, reconnectTimer, timers, statusEl,
                   inTask, attempts>>

\* C8: sendMessage returns true exactly when the socket is OPEN and send()
\* does not raise, and then one message went out; otherwise it returns
\* false, raises nothing and nothing goes out, in that callback or in any
\* later one; it never changes the connection.
C8_SendOutcome ==
    [][/\ \A th \in BOOLEAN :
              UserStopsAll(th) => SendOutcome(th, [type |-> "stop_all"])
       /\ \A v \in SimSpeeds, th \in BOOLEAN :
              UserSetsSimSpeed(v, th)
                  => SendOutcome(th, [type |-> "sim_speed", speed |-> v])
       /\ \A id \in ScenarioIds, th \in BOOLEAN :
              UserAppliesScenario(id, th)
                  => SendOutcome(th, [type |-> "scenario", scenario_id |-> id])
       /\ \A v \in SendValues, th \in BOOLEAN :
              (UserMovesSlider("slew-angle-slider", v, th) /\ selectedCraneId # "")
                  => SendOutcome(th, [type |-> "control",
                                      crane_id |-> selectedCraneId,
                                      key |-> "slew_angle", value |-> v])
       /\ sendRet' \in {"none", "true", "false"}
       /\ sendRet' # "true" => sent' = <<>>
      ]_vars

\* {type: "control", crane_id: "TC-1", slew_angle: 45} went out
C8_ControlSent ==
    /\ sendRet = "true"
    /\ sent = <<[type |-> "control", crane_id |-> "TC-1",
                 key |-> "slew_angle", value |-> 45]>>

\* Whether the frame carries an error field, and whether it carries the
\* acknowledgment marker
ErrorPresent(f) == f.kind = "object" /\ f.error # None
AckMarked(f) == f.kind = "object" /\ f.ack = Some(TRUE)

\* C9 as stated: a payload that is no message and a frame with an error field
\* present are never dispatched, a frame with the acknowledgment marker and
\* no error field is never dispatched, every other frame is dispatched to
\* onDataReceived exactly once.
C9_ClassifiedByPresence ==
    [][\A s \in Sockets, f \in AllFrames :
           SocketMessage(s, f, "none")
               => dispatched' =
                      IF f.kind \in {"malformed", "null"} \/ ErrorPresent(f)
                                                          \/ AckMarked(f)
                      THEN 0 ELSE 1
      ]_vars

\* C10 as stated: a malformed frame, a frame with an error field and a frame
\* with the acknowledgment marker leave the connection and the scene as they
\* were.
C10_DiscardedFramesChangeNothing ==
    [][\A s \in Sockets, f \in AllFrames :
           (SocketMessage(s, f, "none")
                /\ (f.kind = "malformed" \/ ErrorPresent(f) \/ AckMarked(f)))
               => UNCHANGED <<ws, sock, isConnected, reconnectTimer, timers,
                              statusEl, craneObjects, sceneGroups, sceneLines,
                              warningLines, currentState>>
      ]_vars


-----------------------------------------------------------------------------
(* The dispatcher and the reconciler *)

\* onDataReceived: the reconciler, then the six panel renderers
DispatchOrder ==
    <<"updateThreeScene", "updateStatusSummary", "updateCollisionTable",
      "updateAlertMessages", "updateEventLog", "updateCraneSelector",
      "updateSelectedCraneInfo">>

\* Whether the last callback dispatched a snapshot and its reconciler got
\* past the isInitialized guard
Reconciled == before # None

\* S.cranes || [], S.collisions || [] of the snapshot last dispatched
CranesOf(state) == IF state.kind # "object" THEN <<>> ELSE OrElse(state.cranes, <<>>)
CollisionsOf(state) ==
    IF state.kind # "object" THEN <<>> ELSE OrElse(state.collisions, <<>>)
\* S.status?.crane_alerts || {}
CraneAlertsOf(state) ==
    IF state.kind # "object" \/ state.status = None THEN EmptyMap
    ELSE OrElse(The(state.status).crane_alerts, EmptyMap)

\* C11 as stated: every dispatched snapshot has the reconciler called first
\* and then each of the six panel renderers, in the fixed order, each
\* running to its end within the one callback.
C11_EveryRendererInOrder ==
    dispatched > 0 => calls = DispatchOrder

\* The neutral appearance of a Visual Object
Neutral(obj) ==
    /\ obj.tipColor = White
    /\ obj.radiusColor = obj.color
    /\ obj.radiusOpacity = 15

\* C12: a snapshot whose entity list, collision list, alert list or
\* crane-alert map is absent is processed to the end and nothing is raised;
\* without an entity list no Visual Object is left, without a collision list
\* no overlay line is left, without a crane-alert map every Visual Object is
\* neutral.
C12_AbsentCollectionsAreEmpty ==
    (dispatched > 0 /\ (\/ currentState.cranes = None
                        \/ currentState.collisions = None
                        \/ currentState.alerts = None
                        \/ CraneAlertsOf(currentState) = EmptyMap))
        => /\ calls = DispatchOrder
           /\ (Reconciled /\ currentState.cranes = None)
                  => craneObjects = EmptyMap /\ sceneGroups = {}
           /\ (Reconciled /\ currentState.collisions = None)
                  => warningLines = <<>> /\ sceneLines = {}
           /\ (Reconciled /\ CraneAlertsOf(currentState) = EmptyMap)
                  => \A id \in DOMAIN craneObjects : Neutral(craneObjects[id])
           /\ currentState.alerts = None => dom.alertMessages = Some(<<>>)

\* a snapshot without entity list arrived over a scene of three cranes
C12_EntityListAbsent ==
    /\ before = Some(Ids)
    /\ currentState.cranes = None
    /\ craneObjects = EmptyMap
    /\ calls = DispatchOrder


\* The overlay: what each line of w connects and looks like, the identity of
\* the THREE.Line object left out
Overlay(w) ==
    [i \in DOMAIN w |-> [a |-> w[i].a, b |-> w[i].b, from |-> w[i].from,
                         to |-> w[i].to, color |-> w[i].color]]
LineHandles(w) == {w[i].line : i \in DOMAIN w}

\* C13: reconciling the snapshot that was reconciled last once more leaves
\* the mapping with every pose and color, the groups of the scene and the
\* overlay as they are: nothing is created, nothing is destroyed.
C13_ReconcileTwice ==
    [][(Reconciled /\ Reconciled' /\ currentState' = currentState)
           => /\ craneObjects' = craneObjects
              /\ sceneGroups' = sceneGroups
              /\ Overlay(warningLines') = Overlay(warningLines)
              /\ before' = Some(DOMAIN craneObjects)
      ]_vars

\* two cranes, one turned and alerted, one line, reconciled over themselves
C13_SameSceneAgain ==
    /\ before = Some({"TC-1", "TC-2"})
    /\ DOMAIN craneObjects = {"TC-1", "TC-2"}
    /\ craneObjects["TC-1"].rotationY = Some(0 - 90)
    /\ Len(warningLines) = 1
    /\ warningLines[1].line # 1

\* The color of the line of a collision record
LineColor(level) ==
    IF level # None /\ The(level) \in DOMAIN ALERT_LEVEL_COLORS
    THEN ALERT_LEVEL_COLORS[The(level)] ELSE White

NotNormal(collision) == collision.alert_level # Some("NORMAL")
BothLive(collision) ==
    /\ collision.crane_a_id \in DOMAIN craneObjects
    /\ collision.crane_b_id \in DOMAIN craneObjects

\* C14 as stated: after a reconcile the overlay has one line for each
\* collision record of the snapshot that is not at NORMAL, between the two
\* cranes the record names and in the color of its level, and no other line.
C14_OneLinePerAlertedRecord ==
    Reconciled =>
        LET drawn == SelectSeq(CollisionsOf(currentState), NotNormal) IN
        /\ Len(warningLines) = Len(drawn)
        /\ \A i \in DOMAIN drawn :
               /\ warningLines[i].a = drawn[i].crane_a_id
               /\ warningLines[i].b = drawn[i].crane_b_id
               /\ warningLines[i].color = LineColor(drawn[i].alert_level)

\* C14, amended: after a reconcile the overlay has one line for each
\* collision record that is not at NORMAL and names two cranes with live
\* Visual Objects, from the boom tip of the one to the boom tip of the other
\* as just posed, in the color of the record's level, white when the level is
\* absent or unknown; a record naming a crane without Visual Object has none.
C14_OneLinePerAlertedLivePair ==
    Reconciled =>
        LET live(c) == NotNormal(c) /\ BothLive(c)
            drawn == SelectSeq(CollisionsOf(currentState), live) IN
        /\ Len(warningLines) = Len(drawn)
        /\ \A i \in DOMAIN drawn :
               /\ warningLines[i].a = drawn[i].crane_a_id
               /\ warningLines[i].b = drawn[i].crane_b_id
               /\ warningLines[i].color = LineColor(drawn[i].alert_level)
               /\ warningLines[i].from
                      = TipWorldPosition(craneObjects[drawn[i].crane_a_id])
               /\ warningLines[i].to
                      = TipWorldPosition(craneObjects[drawn[i].crane_b_id])

\* of two alerted records one names a crane that is not in the snapshot
C14_RecordWithoutObject ==
    /\ Reconciled
    /\ Len(SelectSeq(CollisionsOf(currentState), NotNormal)) = 2
    /\ "TC-3" \notin DOMAIN craneObjects
    /\ Len(warningLines) = 1
    /\ warningLines[1].color = ALERT_LEVEL_COLORS["CAUTION"]

\* C15: a reconcile takes every line of the tick before out of the scene and
\* out of warningLines, and the lines of the scene are then the lines of
\* warningLines, new objects all of them.
C15_OverlayRebuilt ==
    [][Reconciled'
           => /\ sceneLines' \cap LineHandles(warningLines) = {}
              /\ LineHandles(warningLines') \cap LineHandles(warningLines) = {}
              /\ sceneLines' = LineHandles(warningLines')
              /\ Cardinality(sceneLines') = Len(warningLines')
      ]_vars

\* the one line of the scene is the second THREE.Line object
C15_LineReplaced ==
    /\ Reconciled
    /\ Len(warningLines) = 1
    /\ sceneLines = {2}
    /\ before = Some(DOMAIN craneObjects)


ShowsConnected == statusEl = "status-connected"

\* C16 as stated: the indicator and the connected flag show connected
\* exactly when the current socket is OPEN.
C16_ConnectedIffOpen ==
    /\ ShowsConnected <=> Open
    /\ isConnected <=> Open

\* The open event of the current socket was dispatched, its close event and
\* its error event were not
Established == ws # NoSocket /\ sock[ws] \in {"OPEN", "CLOSING"}

\* C16, amended: the indicator and the connected flag show connected exactly
\* from the open event of the current socket to its close or error event,
\* that is while the socket is OPEN and also while it is CLOSING; only the
\* open, close and error handlers change them.
C16_ConnectedBetweenEvents ==
    [][/\ (ShowsConnected <=> Established)'
       /\ (isConnected <=> Established)'
       /\ (statusEl' # statusEl \/ isConnected' # isConnected)
              => \E s \in Sockets :
                     SocketOpens(s) \/ SocketCloses(s) \/ SocketErrors(s)
      ]_vars

\* the closing handshake has begun, the close event is still to come
C16_ConnectedWhileClosing ==
    /\ ws # NoSocket
    /\ sock[ws] = "CLOSING"
    /\ ShowsConnected
    /\ isConnected

\* C17: a Visual Object created for a crane with base (x, y) sits at
\* (x, 0, y) with its boom pivot at the mast height, and after a reconcile
\* the rotation about the vertical axis of every crane of the snapshot is
\* minus its slew angle, whatever the scene was before.
C17_TransformOfSnapshot ==
    Reconciled =>
        LET cranes == CranesOf(currentState) IN
        \A i \in DOMAIN cranes :
            LET c == cranes[i]
                obj == craneObjects[c.id] IN
            /\ c.id \notin The(before)
                   => /\ obj.position = [x |-> c.base_x, y |-> Some(0), z |-> c.base_y]
                      /\ obj.boomPivot = [x |-> Some(0), y |-> c.mast_height,
                                          z |-> Some(0)]
            /\ obj.rotationY = Neg(c.slew_angle)

\* TC-1 was created by a snapshot that has it at 90 degrees
C17_CreatedTurned ==
    /\ Reconciled
    /\ "TC-1" \notin The(before)
    /\ "TC-1" \in DOMAIN craneObjects
    /\ craneObjects["TC-1"].rotationY = Some(0 - 90)
    /\ craneObjects["TC-1"].position = [x |-> Some(40), y |-> Some(0), z |-> Some(30)]
    /\ craneObjects["TC-1"].boomPivot.y = Some(50)

GroupsOf(objects) == {objects[id].group : id \in DOMAIN objects}

ColoringOf(level, color) ==
    IF level = None \/ level = Some("NORMAL")
    THEN [tipColor |-> White, radiusColor |-> color, radiusOpacity |-> 15]
    ELSE IF level = Some("DANGER") \/ level = Some("WARNING")
    THEN [tipColor |-> LineColor(level), radiusColor |-> LineColor(level),
          radiusOpacity |-> 25]
    ELSE [tipColor |-> IF The(level) \in DOMAIN ALERT_LEVEL_COLORS
                       THEN ALERT_LEVEL_COLORS[The(level)] ELSE color,
          radiusColor |-> color, radiusOpacity |-> 15]

\* C19 as stated: after a reconcile the tip color, the radius color and the
\* radius opacity of every crane of the snapshot are those its alert level
\* in this snapshot gives, whatever its levels were before.
C19_ColoringFromCurrentLevel ==
    Reconciled =>
        LET cranes == CranesOf(currentState) IN
        \A i \in DOMAIN cranes :
            LET obj == craneObjects[cranes[i].id] IN
            [tipColor |-> obj.tipColor, radiusColor |-> obj.radiusColor,
             radiusOpacity |-> obj.radiusOpacity]
                = ColoringOf(Lookup(CraneAlertsOf(currentState), cranes[i].id),
                             obj.color)

\* C20: after a reconcile both boom rotations of every crane of the
\* snapshot come from its slew angle and its luffing angle in this
\* snapshot, for an object that existed and for one created in this tick.
C20_PoseFromSnapshot ==
    Reconciled =>
        LET cranes == CranesOf(currentState) IN
        \A i \in DOMAIN cranes :
            /\ craneObjects[cranes[i].id].rotationY = Neg(cranes[i].slew_angle)
            /\ craneObjects[cranes[i].id].rotationZ = cranes[i].luffing_angle

\* TC-1 existed and was turned, TC-2 was created in the same tick
C20_TurnedAndCreated ==
    /\ before = Some({"TC-1"})
    /\ DOMAIN craneObjects = {"TC-1", "TC-2"}
    /\ craneObjects["TC-1"].rotationY = Some(0 - 90)
    /\ craneObjects["TC-1"].rotationZ = Some(30)
    /\ craneObjects["TC-2"].rotationY = Some(0)


-----------------------------------------------------------------------------
(* The panels *)

\* S.status?.recent_events || [] of a snapshot
EventsOf(state) ==
    IF state.kind # "object" \/ state.status = None THEN <<>>
    ELSE OrElse(The(state.status).recent_events, <<>>)

\* The number of cranes a snapshot has at a level
CountAt(state, level) ==
    Cardinality({id \in DOMAIN CraneAlertsOf(state) :
                     CraneAlertsOf(state)[id] = level})

\* What an element holds: the text of the page as served, or n
ServedOr(text, n) == text = None \/ text = Some(n)

\* The status summary holds the counts of a snapshot
SummaryShows(state) ==
    /\ ServedOr(dom.text["total-cranes"], Len(CranesOf(state)))
    /\ ServedOr(dom.text["count-normal"], CountAt(state, "NORMAL"))
    /\ ServedOr(dom.text["count-caution"], CountAt(state, "CAUTION"))
    /\ ServedOr(dom.text["count-warning"], CountAt(state, "WARNING"))
    /\ ServedOr(dom.text["count-danger"], CountAt(state, "DANGER"))

\* The event log holds one item for each event of a snapshot
EventLogShows(state) ==
    dom.eventLog = None \/ Len(The(dom.eventLog)) = Len(EventsOf(state))

\* The options of #select-crane are the placeholder and the ids of a snapshot
SelectorOffers(state) ==
    dom.selectOptions
        = <<"">> \o [i \in DOMAIN CranesOf(state) |-> CranesOf(state)[i].id]

\* The collision table has one row for each record of a snapshot, and the
\* alert area its alerts
TablesShow(state) ==
    /\ dom.collisionTbody # None
    /\ Len(The(dom.collisionTbody)) = Len(CollisionsOf(state))
    /\ \A i \in DOMAIN CollisionsOf(state) :
           The(dom.collisionTbody)[i].class = CollisionsOf(state)[i].alert_level
    /\ dom.alertMessages = Some(OrElse(state.alerts, <<>>))

\* C21 as stated: when onDataReceived(S) has returned, the scene holds the
\* cranes of S and the status summary, the collision table, the alert
\* area, the event log and the crane selector all show S, none of them
\* values of an earlier snapshot.
C21_PanelsShowSnapshot ==
    (dispatched > 0 /\ calls = DispatchOrder)
        => /\ isInitialized => DOMAIN craneObjects = EntityIds(currentState)
           /\ TablesShow(currentState)
           /\ SummaryShows(currentState)
           /\ EventLogShows(currentState)
           /\ SelectorOffers(currentState)


\* C22 as stated: no callback raises on a snapshot whose optional scalars
\* are absent, neither the one an inbound frame starts nor the one the
\* crane selector starts.
C22_NothingRaises ==
    \A i \in DOMAIN calls : calls[i] # "raise"


-----------------------------------------------------------------------------
(* The scene graph *)

\* C23: the crane groups of the scene are the groups of the mapping, one
\* group for each id: a snapshot that lists an id twice creates one Visual
\* Object for it, and a group leaves the scene when its id leaves the
\* mapping, by a reconcile or by applyScenario.
C23_GroupsAreTheMapping ==
    /\ sceneGroups = GroupsOf(craneObjects)
    /\ Cardinality(sceneGroups) = Cardinality(DOMAIN craneObjects)
    /\ \A id \in DOMAIN craneObjects : craneObjects[id].name = id

\* a snapshot that lists TC-1 twice was reconciled over a scene of three
C23_ListedTwice ==
    /\ Reconciled
    /\ The(before) = Ids
    /\ Len(CranesOf(currentState)) = 2
    /\ DOMAIN craneObjects = {"TC-1"}
    /\ Cardinality(sceneGroups) = 1


\* What createCraneObject gives a Visual Object for good
Built(obj) ==
    [group |-> obj.group, name |-> obj.name, position |-> obj.position,
     boomPivot |-> obj.boomPivot, color |-> obj.color,
     mastHeight |-> obj.mastHeight, boomLength |-> obj.boomLength]

\* C24: the placement of the group, the height of the boom pivot and the
\* stored dimensions of a Visual Object are those of its creation as long as
\* its id stays in the mapping, whatever later snapshots report for the id:
\* a later reconcile changes its boom rotation and its colors only.
C24_PlacementFixedAtCreation ==
    [][\A id \in DOMAIN craneObjects \cap DOMAIN craneObjects' :
           Built(craneObjects'[id]) = Built(craneObjects[id])
      ]_vars

\* TC-1 stands where it was created and is turned as the snapshot says,
\* which reports it elsewhere
C24_ReportedElsewhere ==
    /\ Reconciled
    /\ "TC-1" \in The(before)
    /\ currentState = SnapMoved
    /\ craneObjects["TC-1"].position = [x |-> Some(40), y |-> Some(0), z |-> Some(30)]
    /\ craneObjects["TC-1"].mastHeight = Some(50)
    /\ craneObjects["TC-1"].rotationY = Some(0 - 90)

\* C25 as stated: every overlay line of the scene joins two cranes that have
\* a Visual Object in the mapping, at every moment, also after a scenario
\* was applied.
C25_LinesJoinLiveObjects ==
    \A i \in DOMAIN warningLines :
        warningLines[i].line \in sceneLines
            => /\ warningLines[i].a \in DOMAIN craneObjects
               /\ warningLines[i].b \in DOMAIN craneObjects

\* C26 as stated: when updateCraneSelector has run for a snapshot, the
\* options of the crane selector are the placeholder and the ids of that
\* snapshot.
C26_SelectorOffersSnapshotIds ==
    (\E i \in DOMAIN calls : calls[i] = "updateCraneSelector")
        => {dom.selectOptions[i] : i \in DOMAIN dom.selectOptions}
               = {""} \cup EntityIds(currentState)


=============================================================================
